---- MODULE Spec2Model ----
(***************************************************************************)
(* Model of the serverless information-extraction handlers:                *)
(*   - ContentUnderstandingClient.analyze_document / _poll_for_results     *)
(*     (src/people_counter.py), the submit-then-poll job client;           *)
(*   - ContentUnderstandingClient._extract_people_count                    *)
(*     (src/people_counter.py), the regular-expression people counter;     *)
(*   - process_document_with_ai (src/function_app.py), field splitting;    *)
(*   - BlobTrigger, initialize_ai_client, process_document_with_ai and     *)
(*     process_document_fallback (src/function_app.py), with the calls of  *)
(*     AIContentUnderstandingClient (src/utils/ai_content_understanding.py) *)
(*     and SchemaManager (src/utils/schema_manager.py) they make;          *)
(*   - ContentUnderstandingClient.analyze_image_for_people                 *)
(*     (src/people_counter.py).                                            *)
(* Time is counted in whole seconds.                                       *)
(***************************************************************************)
EXTENDS Integers, Sequences, FiniteSets, TLC

VARIABLES
    \* ---- job client (analyze_document, _poll_for_results)
    pc,              \* "idle" | "poll" | "done": position of the call
    now,             \* time.time()
    start,           \* start_time of _poll_for_results
    maxWait,         \* max_wait_time of _poll_for_results
    opLoc,           \* operation_location ("None" when the header is absent)
    submitCode,      \* HTTP status of the analysis POST (0: none sent)
    submitBody,      \* response.text of the analysis POST
    polls,           \* status requests (GET) sent to the service
    sleeps,          \* calls of time.sleep(2)
    nonTerm,         \* responses observed with status NotStarted or Running
    lastStatus,      \* status of the last HTTP-200 poll response ("none" yet)
    lastResult,      \* JSON body of the last HTTP-200 poll response
    lastPollElapsed, \* time.time() - start_time when the last GET was sent
    waited,          \* total time spent inside the status requests
    seqPos,          \* how many leading observed statuses matched ExampleSeq (-1: deviated)
    outcome,         \* what the call returned or raised
    \* ---- _extract_people_count
    text,            \* the description handed to _extract_people_count
    nsegs,           \* how many pieces the description was put together from
    cphase,          \* "compose" | "done"
    count,           \* what _extract_people_count returned or raised
    embN,            \* the number n of the embedded phrase "<n> people" (-1: none)
    preLen,          \* how many characters stand before the embedded phrase
    \* ---- process_document_with_ai
    fphase,          \* "idle" | "done"
    resp,            \* result of ai_client.analyze_document
    extracted,       \* extracted_data
    confidence,      \* confidence_scores
    \* ---- initialize_ai_client, BlobTrigger
    aiClient,        \* the global ai_client (0: None, n: the n-th client constructed)
    schemaId,        \* the global schema_id ("None": None)
    constructed,     \* calls of AIContentUnderstandingClient() that returned
    registered,      \* calls of register_schema
    invocations,     \* invocations of BlobTrigger so far
    blob,            \* myblob of the last invocation
    lastRun,         \* what the last invocation went through
    info,            \* extracted_info of the last invocation
    record,          \* the document of the last outputDocument.set
    \* ---- initialize_ai_client run by several invocations
    serialized,      \* whether the invocations run one after another
    ipc,             \* the statement each invocation is at
    target,          \* the client each invocation called register_schema on
    regInfo,         \* schema_info of each invocation
    regLog,          \* the registrations in the order the service received them
    cache,           \* _schema_cache[schema_key] of each client ("None": no entry)
    schemaCached,    \* whether schema_manager._schema_cache holds the default schema
    loads,           \* how often the schema file was read
    \* ---- analyze_image_for_people
    iphase,          \* "idle" | "done"
    payload,         \* results of analyze_document
    imageOutcome     \* what analyze_image_for_people returned or raised

jobVars == <<pc, now, start, maxWait, opLoc, submitCode, submitBody, polls, sleeps,
             nonTerm, lastStatus, lastResult, lastPollElapsed, waited, seqPos, outcome>>

countVars == <<text, nsegs, cphase, count, embN, preLen>>

fieldVars == <<fphase, resp, extracted, confidence>>

triggerVars == <<aiClient, schemaId, constructed, registered, invocations, blob, lastRun,
                 info, record>>

raceVars == <<serialized, ipc, target, regInfo, regLog, cache, schemaCached, loads>>

imageVars == <<iphase, payload, imageOutcome>>

laterVars == <<triggerVars, raceVars, imageVars>>

vars == <<jobVars, countVars, fieldVars, laterVars>>

----------------------------------------------------------------------------
(* Bounds of the model *)

\* longest time one HTTP request takes, in seconds
MaxLatency == 1

\* most pieces of a description that exercises the patterns
MaxSegs == 3

\* most pieces of a description that exercises the fixed phrases
MaxPhrases == 2

\* most pieces put around an embedded "<n> people"
MaxAround == 2

\* most entries of result['documents']
MaxDocs == 2

\* invocations of BlobTrigger in a row
MaxInvocations == 3

\* how far beyond the cap of the Summary the long texts go
MaxOver == 2

\* invocations that run initialize_ai_client at once
MaxProcs == 2

\* entries of results['result']['contents']
MaxContents == 2

(* Program constants *)

\* time.sleep(2)
SleepInterval == 2

\* max_wait_time=60
DefaultMaxWait == 60

\* if response.status_code != 202
AcceptedCode == 202

\* if response.status_code != 200
OkCode == 200

\* the largest entry of number_words ('twenty': 20)
MaxNumber == 20

----------------------------------------------------------------------------
(* Inputs *)

\* HTTP statuses the analysis POST may answer with
SubmitCodes == {200, 202, 400}

\* HTTP statuses a status GET may answer with
PollCodes == {200, 500}

\* response.text
Bodies == {"b1", "b2"}

\* response.text of a status response that is not a 200
PollBodies == {"b1"}

\* result.get('status'): the four known values, an unknown one, and "None"
\* for a response without a status field
Statuses == {"NotStarted", "Running", "Succeeded", "Failed", "Canceled", "None"}

\* the rest of the JSON body of a status response
Datas == {"d1", "d2"}

\* values of max_wait_time tried on a direct call of _poll_for_results
MaxWaitChoices == {0, 1, 5, DefaultMaxWait}

\* the status sequence of the polling example
ExampleSeq == <<"NotStarted", "Running", "Succeeded">>

NoResult == [status |-> "none", data |-> "none"]

NoOutcome == [kind |-> "none", code |-> 0, body |-> "none", result |-> NoResult]

Returned(result) == [kind |-> "Succeeded", code |-> 0, body |-> "none", result |-> result]

Raised(kind, code, body, result) == [kind |-> kind, code |-> code, body |-> body, result |-> result]

----------------------------------------------------------------------------
(* analyze_document and _poll_for_results *)

\* variant: any 2xx answer of the kind "OK" is taken as acceptance
SubmitAcceptedAny2xx(code) == code \in {OkCode, AcceptedCode}

\* if response.status_code != 202: raise
SubmitAccepted(code) == code = AcceptedCode

\* variant: the loop condition written with <=
LoopGuardInclusive(elapsed, mw) == elapsed <= mw

\* while time.time() - start_time < max_wait_time
LoopGuard(elapsed, mw) == elapsed < mw

\* variant: Running is taken for a finished analysis
StatusBranchRunningReturns(status) ==
    CASE status \in {"Succeeded", "Running"} -> "return"
      [] status = "Failed" -> "raise_failed"
      [] status = "NotStarted" -> "sleep"
      [] OTHER -> "raise_unknown"

\* variant: a failed analysis is polled again
StatusBranchRetryFailed(status) ==
    CASE status = "Succeeded" -> "return"
      [] status \in {"Running", "NotStarted", "Failed"} -> "sleep"
      [] OTHER -> "raise_unknown"

\* variant: an unrecognised status is a silent continue
StatusBranchContinueUnknown(status) ==
    CASE status = "Succeeded" -> "return"
      [] status = "Failed" -> "raise_failed"
      [] OTHER -> "sleep"

\* the if/elif chain on status
StatusBranch(status) ==
    CASE status = "Succeeded" -> "return"
      [] status = "Failed" -> "raise_failed"
      [] status \in {"Running", "NotStarted"} -> "sleep"
      [] OTHER -> "raise_unknown"

\* time.sleep(2)
SleepDuration == SleepInterval

JobInit ==
    /\ pc = "idle"
    /\ now = 0
    /\ start = 0
    /\ maxWait = DefaultMaxWait
    /\ opLoc = "None"
    /\ submitCode = 0
    /\ submitBody = "none"
    /\ polls = 0
    /\ sleeps = 0
    /\ nonTerm = 0
    /\ lastStatus = "none"
    /\ lastResult = NoResult
    /\ lastPollElapsed = -1
    /\ waited = 0
    /\ seqPos = 0
    /\ outcome = NoOutcome

\* analyze_document: the POST, then either the raise or the call of
\* _poll_for_results(operation_location), which reads start_time first
AnalyzeDocument ==
    /\ UNCHANGED <<countVars, fieldVars, laterVars>>
    /\ pc = "idle"
    /\ \E code \in SubmitCodes, body \in Bodies, hdr \in {"None", "op1"} :
        /\ submitCode' = code
        /\ submitBody' = body
        /\ IF ~SubmitAccepted(code)
             THEN /\ outcome' = Raised("SubmitFailed", code, body, NoResult)
                  /\ pc' = "done"
                  /\ UNCHANGED <<opLoc, start>>
             ELSE /\ opLoc' = hdr
                  /\ start' = now
                  /\ pc' = "poll"
                  /\ UNCHANGED outcome
    /\ UNCHANGED <<now, maxWait, polls, sleeps, nonTerm, lastStatus, lastResult,
                   lastPollElapsed, waited, seqPos>>

\* _poll_for_results(operation_location, max_wait_time) called directly
CallPoll ==
    /\ UNCHANGED <<countVars, fieldVars, laterVars>>
    /\ pc = "idle"
    /\ \E mw \in MaxWaitChoices :
        /\ maxWait' = mw
        /\ opLoc' = "op1"
        /\ start' = now
        /\ pc' = "poll"
    /\ UNCHANGED <<now, submitCode, submitBody, polls, sleeps, nonTerm, lastStatus, lastResult,
                   lastPollElapsed, waited, seqPos, outcome>>

\* the while condition is false: raise Exception("Analysis timed out")
PollTimeout ==
    /\ UNCHANGED <<countVars, fieldVars, laterVars>>
    /\ pc = "poll"
    /\ ~LoopGuard(now - start, maxWait)
    /\ outcome' = Raised("TimedOut", 0, "none", NoResult)
    /\ pc' = "done"
    /\ UNCHANGED <<now, start, maxWait, opLoc, submitCode, submitBody, polls, sleeps, nonTerm,
                   lastStatus, lastResult, lastPollElapsed, waited, seqPos>>

\* requests.get(None): the library rejects the URL before anything is sent
PollNoLocation ==
    /\ UNCHANGED <<countVars, fieldVars, laterVars>>
    /\ pc = "poll"
    /\ LoopGuard(now - start, maxWait)
    /\ opLoc = "None"
    /\ outcome' = Raised("InvalidURL", 0, "none", NoResult)
    /\ pc' = "done"
    /\ UNCHANGED <<now, start, maxWait, opLoc, submitCode, submitBody, polls, sleeps, nonTerm,
                   lastStatus, lastResult, lastPollElapsed, waited, seqPos>>

\* one iteration of the while loop: the GET, then the branch on its answer
PollRequest ==
    /\ UNCHANGED <<countVars, fieldVars, laterVars>>
    /\ pc = "poll"
    /\ LoopGuard(now - start, maxWait)
    /\ opLoc # "None"
    /\ \E d \in 0..MaxLatency, code \in PollCodes, body \in PollBodies,
          status \in Statuses, data \in Datas :
        LET result == [status |-> status, data |-> data]
            branch == StatusBranch(status)
        IN  /\ polls' = polls + 1
            /\ lastPollElapsed' = now - start
            /\ waited' = waited + d
            /\ IF code # OkCode
                 THEN /\ outcome' = Raised("GetFailed", code, body, NoResult)
                      /\ pc' = "done"
                      /\ now' = now + d
                      /\ UNCHANGED <<sleeps, nonTerm, lastStatus, lastResult, seqPos>>
                 ELSE /\ lastStatus' = status
                      /\ lastResult' = result
                      /\ nonTerm' = nonTerm + (IF status \in {"NotStarted", "Running"} THEN 1 ELSE 0)
                      /\ seqPos' = IF seqPos >= 0 /\ seqPos < Len(ExampleSeq)
                                        /\ ExampleSeq[seqPos + 1] = status
                                     THEN seqPos + 1 ELSE -1
                      /\ CASE branch = "return" ->
                                /\ outcome' = Returned(result)
                                /\ pc' = "done"
                                /\ now' = now + d
                                /\ UNCHANGED sleeps
                           [] branch = "raise_failed" ->
                                /\ outcome' = Raised("AnalysisFailed", 0, "none", result)
                                /\ pc' = "done"
                                /\ now' = now + d
                                /\ UNCHANGED sleeps
                           [] branch = "sleep" ->
                                /\ sleeps' = sleeps + 1
                                /\ now' = now + d + SleepDuration
                                /\ UNCHANGED <<pc, outcome>>
                           [] OTHER ->
                                /\ outcome' = Raised("UnknownStatus", 0, status, NoResult)
                                /\ pc' = "done"
                                /\ now' = now + d
                                /\ UNCHANGED sleeps
    /\ UNCHANGED <<start, maxWait, opLoc, submitCode, submitBody>>

JobNext ==
    \/ AnalyzeDocument
    \/ CallPoll
    \/ PollTimeout
    \/ PollNoLocation
    \/ PollRequest


----------------------------------------------------------------------------
(* _extract_people_count: characters, character classes and str methods.   *)
(* A description is a sequence of characters; a character is a one-letter   *)
(* string, except SUP2, which names the character U+00B2 (superscript two). *)

Chars(s) == [i \in 1..Len(s) |-> SubSeq(s, i, i)]

LowerLetters == Chars("abcdefghijklmnopqrstuvwxyz")

UpperLetters == Chars("ABCDEFGHIJKLMNOPQRSTUVWXYZ")

DecimalDigits == Chars("0123456789")

SUP2 == "sup2"

Range(f) == {f[i] : i \in DOMAIN f}

IndexOf(c, seq) == CHOOSE i \in DOMAIN seq : seq[i] = c

UpperSet == Range(UpperLetters)

\* the characters \w matches: letters, digits (superscripts included), "_"
WordChars == Range(LowerLetters) \cup Range(UpperLetters) \cup Range(DecimalDigits) \cup {"_", SUP2}

\* the characters \d matches
DecimalChars == Range(DecimalDigits)

\* the characters \s matches
SpaceChars == {" ", "\t", "\n"}

\* the characters with the digit property of str.isdigit()
DigitPropertyChars == Range(DecimalDigits) \cup {SUP2}

\* str.lower() on one character
LowerChar(c) ==
    IF c \in UpperSet THEN LowerLetters[IndexOf(c, UpperLetters)] ELSE c

RECURSIVE ToLower(_)
\* text.lower()
ToLower(t) ==
    IF t = << >> THEN << >>
    ELSE Append(ToLower(SubSeq(t, 1, Len(t) - 1)), LowerChar(t[Len(t)]))

\* the classes \w, \d and \s of the re module on str patterns
InClass(c, cls) ==
    CASE cls = "w" -> c \in WordChars
      [] cls = "d" -> c \in DecimalChars
      [] cls = "s" -> c \in SpaceChars
      [] OTHER -> FALSE

\* str.isdigit(): non-empty and every character has the digit property,
\* which the superscript digits have as well
IsDigitStr(tok) ==
    /\ Len(tok) > 0
    /\ \A i \in 1..Len(tok) : tok[i] \in DigitPropertyChars

\* whether int(tok) accepts a string that passed isdigit()
IntParses(tok) == \A i \in 1..Len(tok) : tok[i] \in DecimalChars

RECURSIVE DecimalValue(_)
\* int(tok) of a string of decimal digits
DecimalValue(tok) ==
    IF Len(tok) = 0 THEN 0
    ELSE 10 * DecimalValue(SubSeq(tok, 1, Len(tok) - 1))
            + (IndexOf(tok[Len(tok)], DecimalDigits) - 1)

\* number_words, in the order of the table (zero first)
NumberWords ==
    << Chars("zero"), Chars("one"), Chars("two"), Chars("three"), Chars("four"),
       Chars("five"), Chars("six"), Chars("seven"), Chars("eight"), Chars("nine"),
       Chars("ten"), Chars("eleven"), Chars("twelve"), Chars("thirteen"),
       Chars("fourteen"), Chars("fifteen"), Chars("sixteen"), Chars("seventeen"),
       Chars("eighteen"), Chars("nineteen"), Chars("twenty") >>

\* the keys of number_words
NumberWordSet == Range(NumberWords)

\* variant: the table with 'twelve': 20
NumberWordValueTypo(tok) ==
    IF tok = Chars("twelve") THEN 20 ELSE IndexOf(tok, NumberWords) - 1

\* number_words[tok]
NumberWordValue(tok) == IndexOf(tok, NumberWords) - 1

(* The five patterns. Each has the shape                                    *)
(*     [lead] sep (cap+) \s+ (noun) [\s+ (tail)]                            *)
(* lead: alternatives before the captured token (optional in pattern 1),    *)
(* sep: what stands between lead and token, cap: the class of the token.    *)

PersonNouns ==
    << Chars("people"), Chars("persons"), Chars("individuals"), Chars("men"),
       Chars("women"), Chars("adults"), Chars("children") >>

PeoplePersons == << Chars("people"), Chars("persons") >>

Patterns ==
    << [lead |-> << Chars("group of"), Chars("crowd of") >>, leadOptional |-> TRUE,
        sep |-> "star", cap |-> "w", nouns |-> PersonNouns, tail |-> << >>],
       [lead |-> << >>, leadOptional |-> TRUE,
        sep |-> "none", cap |-> "w", nouns |-> PersonNouns, tail |-> << >>],
       [lead |-> << >>, leadOptional |-> TRUE,
        sep |-> "none", cap |-> "d", nouns |-> PersonNouns, tail |-> << >>],
       [lead |-> << Chars("shows"), Chars("depicts"), Chars("contains"), Chars("has"),
                    Chars("features") >>, leadOptional |-> FALSE,
        sep |-> "plus", cap |-> "w", nouns |-> PeoplePersons, tail |-> << >>],
       [lead |-> << >>, leadOptional |-> TRUE,
        sep |-> "none", cap |-> "w", nouns |-> PeoplePersons,
        tail |-> << Chars("sitting"), Chars("standing"), Chars("walking"),
                    Chars("gathered") >>] >>

RECURSIVE RunEnd(_, _, _)
\* the position after the longest run of characters of class cls from i
RunEnd(t, i, cls) ==
    IF i <= Len(t) /\ InClass(t[i], cls) THEN RunEnd(t, i + 1, cls) ELSE i

\* whether the literal lit stands at position i of t
StartsWith(t, i, lit) ==
    /\ i + Len(lit) - 1 <= Len(t)
    /\ t[i] = lit[1]
    /\ SubSeq(t, i, i + Len(lit) - 1) = lit

\* the first alternative of alts standing at position i (0: none)
FirstAlt(t, i, alts) ==
    IF \E k \in DOMAIN alts : StartsWith(t, i, alts[k])
      THEN CHOOSE k \in DOMAIN alts :
              /\ StartsWith(t, i, alts[k])
              /\ \A j \in 1..(k - 1) : ~StartsWith(t, i, alts[j])
      ELSE 0

NoMatch == [ok |-> FALSE, cap |-> << >>, end |-> 0]

\* (cap+) \s+ (noun) [\s+ (tail)] from position j: greedy runs, and no
\* shorter run can succeed because the next character is still of the class
MatchRest(p, t, j) ==
    LET j1 == RunEnd(t, j, p.cap)
        j2 == RunEnd(t, j1, "s")
        n  == FirstAlt(t, j2, p.nouns)
        j3 == j2 + Len(p.nouns[n])
        j4 == RunEnd(t, j3, "s")
        k  == FirstAlt(t, j4, p.tail)
    IN  IF j1 = j \/ j2 = j1 \/ n = 0 THEN NoMatch
        ELSE IF p.tail = << >> THEN [ok |-> TRUE, cap |-> SubSeq(t, j, j1 - 1), end |-> j3]
        ELSE IF j4 = j3 \/ k = 0 THEN NoMatch
        ELSE [ok |-> TRUE, cap |-> SubSeq(t, j, j1 - 1), end |-> j4 + Len(p.tail[k])]

\* one match attempt of pattern p at position i: with the lead first, then,
\* where the lead is optional or absent, without it
MatchAt(p, t, i) ==
    LET k  == FirstAlt(t, i, p.lead)
        j0 == i + Len(p.lead[k])
        j  == RunEnd(t, j0, "s")
        withLead == IF k = 0 \/ (p.sep = "plus" /\ j = j0) THEN NoMatch
                    ELSE MatchRest(p, t, j)
        noLead == IF ~p.leadOptional THEN NoMatch
                  ELSE MatchRest(p, t, IF p.sep = "star" THEN RunEnd(t, i, "s") ELSE i)
    IN  IF withLead.ok THEN withLead ELSE noLead

RECURSIVE FindAll(_, _, _)
\* re.findall(pattern, text): the captured tokens of the non-overlapping
\* matches, scanning from the left
FindAll(p, t, pos) ==
    IF pos > Len(t) THEN << >>
    ELSE LET m == MatchAt(p, t, pos)
         IN  IF m.ok THEN << m.cap >> \o FindAll(p, t, m.end)
             ELSE FindAll(p, t, pos + 1)

IntResult(n) == [kind |-> "int", value |-> n]

ValueErrorResult == [kind |-> "ValueError", value |-> 0]

NoResultYet == [kind |-> "none", value |-> 0]

\* the body of "for match in matches": what one token does to the call
TokenEffect(tok) ==
    IF IsDigitStr(tok)
      THEN (IF IntParses(tok) THEN IntResult(DecimalValue(tok)) ELSE ValueErrorResult)
    ELSE IF tok \in NumberWordSet THEN IntResult(NumberWordValue(tok))
    ELSE NoResultYet

\* variant: only the first match of a pattern is looked at
MatchLoopFirstOnly(matches, i) ==
    IF i > Len(matches) THEN NoResultYet ELSE TokenEffect(matches[i])

RECURSIVE MatchLoop(_, _)
\* for match in matches: the first token that returns or raises decides
MatchLoop(matches, i) ==
    IF i > Len(matches) THEN NoResultYet
    ELSE LET e == TokenEffect(matches[i])
         IN  IF e.kind # "none" THEN e ELSE MatchLoop(matches, i + 1)

RECURSIVE PatternLoop(_, _)
\* for pattern in patterns
PatternLoop(t, k) ==
    IF k > Len(Patterns) THEN NoResultYet
    ELSE LET e == MatchLoop(FindAll(Patterns[k], t, 1), 1)
         IN  IF e.kind # "none" THEN e ELSE PatternLoop(t, k + 1)

\* lit in text_lower
Contains(t, lit) == \E i \in 1..(Len(t) - Len(lit) + 1) : StartsWith(t, i, lit)

\* the if/elif chain on the fixed phrases
PhraseCount(t) ==
    IF Contains(t, Chars("couple")) THEN 2
    ELSE IF Contains(t, Chars("trio")) \/ Contains(t, Chars("three people")) THEN 3
    ELSE IF Contains(t, Chars("quartet")) \/ Contains(t, Chars("four people")) THEN 4
    ELSE IF Contains(t, Chars("crowd")) \/ Contains(t, Chars("many people")) THEN 10
    ELSE IF Contains(t, Chars("few people")) THEN 3
    ELSE IF Contains(t, Chars("several people")) THEN 5
    ELSE 0

\* _extract_people_count(text)
ExtractPeopleCount(t) ==
    LET tl == ToLower(t)
        e  == PatternLoop(tl, 1)
    IN  IF e.kind # "none" THEN e ELSE IntResult(PhraseCount(tl))

(* _extract_people_count called on descriptions put together from pieces *)

\* the pieces of the descriptions tried with the patterns
CountPieces ==
    { Chars("many people "), Chars("two men and 5 women "), Chars("5 women "),
      << SUP2 >>, Chars(" persons "), Chars("x"), Chars("nice weather "),
      Chars("has "), Chars("Crowd of ") }

\* the pieces of the descriptions tried with the fixed phrases
PhrasePieces ==
    { Chars("couple "), Chars("trio "), Chars("three people "), Chars("quartet "),
      Chars("four people "), Chars("crowd "), Chars("many people "),
      Chars("few people "), Chars("several people "), Chars("x"),
      << SUP2 >> \o Chars(" men ") }

\* what may stand before and after an embedded "<n> people"
BeforePieces ==
    { Chars("There are "), Chars("Group of "), Chars("3 men and "),
      Chars("many women and "), Chars("1"), Chars("x") }

AfterPieces == { Chars(" sitting"), Chars(", 7 women"), Chars("s") }

RECURSIVE DigitsOf(_)
\* str(n) for n >= 0
DigitsOf(n) ==
    IF n < 10 THEN << DecimalDigits[n + 1] >>
    ELSE DigitsOf(n \div 10) \o << DecimalDigits[(n % 10) + 1] >>

\* "<n> people" with n written as digits or as its number word
QuantityPhrase(n, form) ==
    (IF form = "digits" THEN DigitsOf(n) ELSE NumberWords[n + 1]) \o Chars(" people")

CountIdle ==
    /\ text = << >>
    /\ nsegs = 0
    /\ cphase = "off"
    /\ count = NoResultYet
    /\ embN = -1
    /\ preLen = 0

CountInit ==
    /\ text = << >>
    /\ nsegs = 0
    /\ cphase = "compose"
    /\ count = NoResultYet
    /\ embN = -1
    /\ preLen = 0

EmbedInit ==
    /\ \E n \in 0..MaxNumber, form \in {"digits", "word"} :
          /\ text = QuantityPhrase(n, form)
          /\ embN = n
    /\ nsegs = 0
    /\ cphase = "compose"
    /\ count = NoResultYet
    /\ preLen = 0

AppendPiece ==
    /\ cphase = "compose"
    /\ nsegs < MaxSegs
    /\ \E piece \in CountPieces : text' = text \o piece
    /\ nsegs' = nsegs + 1
    /\ UNCHANGED <<cphase, count, embN, preLen, jobVars, fieldVars, laterVars>>

AppendPhrase ==
    /\ cphase = "compose"
    /\ nsegs < MaxPhrases
    /\ \E piece \in PhrasePieces : text' = text \o piece
    /\ nsegs' = nsegs + 1
    /\ UNCHANGED <<cphase, count, embN, preLen, jobVars, fieldVars, laterVars>>

AddBefore ==
    /\ cphase = "compose"
    /\ nsegs < MaxAround
    /\ \E piece \in BeforePieces :
          /\ text' = piece \o text
          /\ preLen' = preLen + Len(piece)
    /\ nsegs' = nsegs + 1
    /\ UNCHANGED <<cphase, count, embN, jobVars, fieldVars, laterVars>>

AddAfter ==
    /\ cphase = "compose"
    /\ nsegs < MaxAround
    /\ \E piece \in AfterPieces : text' = text \o piece
    /\ nsegs' = nsegs + 1
    /\ UNCHANGED <<cphase, count, embN, preLen, jobVars, fieldVars, laterVars>>

\* the call people_count = self._extract_people_count(description)
Extract ==
    /\ cphase = "compose"
    /\ count' = ExtractPeopleCount(text)
    /\ cphase' = "done"
    /\ UNCHANGED <<text, nsegs, embN, preLen, jobVars, fieldVars, laterVars>>

----------------------------------------------------------------------------
(* process_document_with_ai: splitting the fields of the first document.   *)
(* A JSON value is a scalar (written as a string, "null" for None) or a     *)
(* mapping from keys to scalars.                                            *)

EmptyMapping == [k \in {} |-> "null"]

Scalar(s) == [isDict |-> FALSE, scalar |-> s, dict |-> EmptyMapping]

Mapping(d) == [isDict |-> TRUE, scalar |-> "null", dict |-> d]

\* the keys a field's mapping may hold
MappingKeys == {"value", "confidence", "city"}

\* what each key may hold
KeyValues(k) ==
    CASE k = "value" -> {"Acme", "42"}
      [] k = "confidence" -> {"0.9"}
      [] OTHER -> {"Paris"}

Mappings ==
    UNION { {d \in [ks -> {"Acme", "42", "0.9", "Paris"}] : \A k \in ks : d[k] \in KeyValues(k)}
            : ks \in SUBSET MappingKeys }

FieldValues == {Scalar(s) : s \in {"Acme", "42", "null"}} \cup {Mapping(d) : d \in Mappings}

FieldNames == {"Name", "Total"}

FieldMaps == UNION { [ns -> FieldValues] : ns \in SUBSET FieldNames }

\* an entry of result['documents']
Document(hasFields, fields) == [hasFields |-> hasFields, fields |-> fields]

NoFields == [n \in {} |-> Scalar("null")]

FirstDocuments == {Document(FALSE, NoFields)} \cup {Document(TRUE, f) : f \in FieldMaps}

\* the documents after the first
LaterDocuments == {Document(FALSE, NoFields), Document(TRUE, [n \in {"Name"} |-> Scalar("Other")])}

DocumentLists ==
    {<< >>} \cup
    UNION { {<<d>> \o rest : d \in FirstDocuments, rest \in [1..n -> LaterDocuments]}
            : n \in 0..(MaxDocs - 1) }

Responses ==
    {[hasDocuments |-> FALSE, documents |-> << >>]} \cup
    {[hasDocuments |-> TRUE, documents |-> ds] : ds \in DocumentLists}

\* isinstance(field_data, dict)
IsMapping(v) == v.isDict

\* dict.get(key, default)
DictGet(d, key, default) == IF key \in DOMAIN d THEN d[key] ELSE default

\* the mapping the for loop runs over (none when a guard fails)
FieldsOf(r) ==
    IF r.hasDocuments /\ Len(r.documents) > 0 /\ r.documents[1].hasFields
      THEN r.documents[1].fields
      ELSE NoFields

\* extracted_data after the loop
ExtractedData(fields) ==
    [n \in DOMAIN fields |->
        IF IsMapping(fields[n]) THEN Scalar(DictGet(fields[n].dict, "value", "null"))
        ELSE fields[n]]

\* confidence_scores after the loop
ConfidenceScores(fields) ==
    [n \in {m \in DOMAIN fields : IsMapping(fields[m])} |->
        DictGet(fields[n].dict, "confidence", "0.0")]

FieldsIdle ==
    /\ fphase = "off"
    /\ resp = [hasDocuments |-> FALSE, documents |-> << >>]
    /\ extracted = NoFields
    /\ confidence = EmptyMapping

FieldsInit ==
    /\ fphase = "idle"
    /\ resp \in Responses
    /\ extracted = NoFields
    /\ confidence = EmptyMapping

\* process_document_with_ai when ai_client.analyze_document returned resp
ProcessDocumentWithAI ==
    /\ fphase = "idle"
    /\ extracted' = ExtractedData(FieldsOf(resp))
    /\ confidence' = ConfidenceScores(FieldsOf(resp))
    /\ fphase' = "done"
    /\ UNCHANGED <<resp, jobVars, countVars, laterVars>>

----------------------------------------------------------------------------
(* process_document_fallback: text of a blob.                               *)
(* Blob content is a sequence of bytes (0..255), a str is a sequence of     *)
(* code points, a filename is a sequence of ASCII characters.               *)

\* the character U+0060, which a string of the module cannot hold
GRAVE == "grave"

\* the printable ASCII characters, from code point 32
AsciiTable ==
    Chars(" !\"#$%&'()*+,-./0123456789:;<=>?@ABCDEFGHIJKLMNOPQRSTUVWXYZ[\\]^_")
        \o << GRAVE >> \o Chars("abcdefghijklmnopqrstuvwxyz{|}~")

\* ord(c)
CodePoint(c) == IndexOf(c, AsciiTable) + 31

\* the code points of an ASCII str
CodePoints(s) == [i \in 1..Len(s) |-> CodePoint(s[i])]

\* str.encode('utf-8') of an ASCII str
AsciiBytes(s) == CodePoints(s)

\* a continuation byte 10xxxxxx
IsCont(b) == b \in 128..191

\* the length of the UTF-8 form a lead byte announces (0: not a lead byte)
FormLen(b) ==
    IF b < 128 THEN 1
    ELSE IF b \in 194..223 THEN 2
    ELSE IF b \in 224..239 THEN 3
    ELSE IF b \in 240..244 THEN 4
    ELSE 0

\* the values the second byte of a form may take after lead byte b
SecondByteRange(b) ==
    IF b = 224 THEN 160..191
    ELSE IF b = 237 THEN 128..159
    ELSE IF b = 240 THEN 144..191
    ELSE IF b = 244 THEN 128..143
    ELSE 128..191

\* whether a well-formed UTF-8 form stands at b[i..hi]
FormAt(b, i, hi) ==
    LET n == FormLen(b[i])
    IN  /\ n > 0
        /\ i + n - 1 <= hi
        /\ n >= 2 => b[i + 1] \in SecondByteRange(b[i])
        /\ \A j \in (i + 2)..(i + n - 1) : IsCont(b[j])

\* the code point of the well-formed form at b[i]
FormValue(b, i) ==
    LET n == FormLen(b[i])
    IN  IF n = 1 THEN b[i]
        ELSE IF n = 2 THEN (b[i] % 32) * 64 + (b[i + 1] % 64)
        ELSE IF n = 3 THEN (b[i] % 16) * 4096 + (b[i + 1] % 64) * 64 + (b[i + 2] % 64)
        ELSE (b[i] % 8) * 262144 + (b[i + 1] % 64) * 4096
                + (b[i + 2] % 64) * 64 + (b[i + 3] % 64)

DecodeError == [ok |-> FALSE, text |-> << >>]

Decoded(t) == [ok |-> TRUE, text |-> t]

\* the decoding of two adjacent ranges
DecodeJoin(a, b) == IF a.ok /\ b.ok THEN Decoded(a.text \o b.text) ELSE DecodeError

\* ranges up to this length are decoded form by form, longer ones are split
\* at a form boundary near their middle (a lead byte starts a form in every
\* well-formed text, so both halves decode on their own)
DecodeLinear == 8

RECURSIVE DecodeRange(_, _, _)
\* bytes b[lo..hi] decoded as UTF-8 (errors='strict')
DecodeRange(b, lo, hi) ==
    IF lo > hi THEN Decoded(<< >>)
    ELSE IF hi - lo < DecodeLinear
      THEN IF FormAt(b, lo, hi)
             THEN DecodeJoin(Decoded(<< FormValue(b, lo) >>),
                             DecodeRange(b, lo + FormLen(b[lo]), hi))
             ELSE DecodeError
      ELSE LET mid == (lo + hi) \div 2
               leads == {m \in mid..(mid + 3) : ~IsCont(b[m])}
           IN  IF leads = {} THEN DecodeError
               ELSE LET m == CHOOSE m \in leads : \A k \in leads : m <= k
                    IN  DecodeJoin(DecodeRange(b, lo, m - 1), DecodeRange(b, m, hi))

\* blob_content.decode('utf-8'): the text, or UnicodeDecodeError
DecodeUtf8(b) == DecodeRange(b, 1, Len(b))

\* the code points str.split() treats as whitespace
Whitespace ==
    (9..13) \cup (28..32) \cup {133, 160, 5760} \cup (8192..8202)
        \cup {8232, 8233, 8239, 8287, 12288}

\* len(text_content.split()): the number of maximal runs of non-whitespace
SplitCount(t) ==
    Cardinality({i \in 1..Len(t) :
                    /\ t[i] \notin Whitespace
                    /\ (i = 1 \/ t[i - 1] \in Whitespace)})

\* whether the str t ends with the str suffix
EndsWith(t, suffix) ==
    /\ Len(t) >= Len(suffix)
    /\ SubSeq(t, Len(t) - Len(suffix) + 1, Len(t)) = suffix

\* the extensions decoded as text
TextExtensions == {Chars(".txt"), Chars(".csv"), Chars(".json")}

\* filename.lower().endswith(('.txt', '.csv', '.json'))
HasTextExtension(filename) == \E e \in TextExtensions : EndsWith(ToLower(filename), e)

\* filename.split('.')[-1].lower() if '.' in filename else 'unknown'
FileExtension(filename) ==
    LET dots == {i \in 1..Len(filename) : filename[i] = "."}
    IN  IF dots = {} THEN Chars("unknown")
        ELSE LET last == CHOOSE i \in dots : \A j \in dots : j <= i
             IN  ToLower(SubSeq(filename, last + 1, Len(filename)))

\* the cap of the stored Summary
SummaryCap == 1000

\* variant: the whole text is stored
SummaryWhole(t) == t

\* text_content[:1000] if len(text_content) > 1000 else text_content
Summary(t) == IF Len(t) > SummaryCap THEN SubSeq(t, 1, SummaryCap) ELSE t

\* variant: the try statement without its except clause
TextContentUnhandled(content, filename) ==
    IF HasTextExtension(filename)
      THEN LET d == DecodeUtf8(content)
           IN  IF d.ok THEN [raised |-> FALSE, text |-> d.text]
               ELSE [raised |-> TRUE, text |-> << >>]
      ELSE [raised |-> FALSE, text |-> CodePoints(Chars("Binary file: ") \o filename)]

\* text_content after the try statement of process_document_fallback
\* (raised: an exception left the statement)
TextContent(content, filename) ==
    IF HasTextExtension(filename)
      THEN LET d == DecodeUtf8(content)
           IN  IF d.ok THEN [raised |-> FALSE, text |-> d.text]
               ELSE [raised |-> FALSE,
                     text |-> CodePoints(Chars("Binary file that couldn't be decoded as text: ")
                                            \o filename)]
      ELSE [raised |-> FALSE, text |-> CodePoints(Chars("Binary file: ") \o filename)]

\* datetime.datetime.utcnow().isoformat(); the clock is not modelled
UtcNow == "utcnow"

\* process_document_fallback(blob_content, filename): what it returns
\* (raised: an exception left the function)
ProcessDocumentFallback(content, filename) ==
    LET tc == TextContent(content, filename)
    IN  [raised |-> tc.raised,
         info |->
            [timestamp |-> UtcNow,
             extracted_data |-> [Summary |-> Summary(tc.text), DocumentType |-> "other"],
             confidence_scores |-> EmptyMapping,
             metadata |-> [fileExtension |-> FileExtension(filename),
                           fileSizeBytes |-> Len(content),
                           wordCount |-> SplitCount(tc.text),
                           characterCount |-> Len(tc.text),
                           processingMethod |-> "fallback_basic_extraction"],
             schema_version |-> "fallback"]]

(* ai_client.analyze_document as seen by process_document_with_ai: it      *)
(* raises an exception of requests, or returns the parsed JSON body.        *)

\* the exceptions analyze_document re-raises
AnalysisErrors == {"ConnectionError", "Timeout", "HTTPError", "JSONDecodeError"}

\* JSON bodies that are no mapping with a list of mappings under 'documents':
\*   "null"            None                          line 149 raises TypeError
\*   "number"          5                             line 149 raises TypeError
\*   "documentsNull"   {"documents": None}           line 149 raises TypeError
\*   "documentNumber"  {"documents": [5]}            line 152 raises TypeError
\*   "fieldsList"      {"documents": [{"fields": []}]}   line 156 raises AttributeError
\*   "list"            []                            no field is read
RaisingShapes == {"null", "number", "documentsNull", "documentNumber", "fieldsList"}

NoDocuments == [hasDocuments |-> FALSE, documents |-> << >>]

\* the example of the field splitting
ExampleFields ==
    [n \in {"Name", "Total"} |->
        IF n = "Name" THEN Mapping([k \in {"value", "confidence"} |->
                                        IF k = "value" THEN "Acme" ELSE "0.9"])
        ELSE Scalar("42")]

\* the mapping-shaped bodies the service answers with
TriggerResponses ==
    {NoDocuments, [hasDocuments |-> TRUE, documents |-> << Document(TRUE, ExampleFields) >>]}

Returns(shape, r) == [kind |-> "returned", shape |-> shape, resp |-> r, error |-> "none"]

Raises(e) == [kind |-> "raised", shape |-> "none", resp |-> NoDocuments, error |-> e]

\* what the call of analyze_document may do
AnalysisOutcomes ==
    {Raises(e) : e \in AnalysisErrors}
        \cup {Returns("mapping", r) : r \in TriggerResponses}
        \cup {Returns(s, NoDocuments) : s \in RaisingShapes \cup {"list"}}

\* whether lines 149-161 raise on the returned body
InterpretRaises(primary) == primary.shape \in RaisingShapes

\* how the try block of process_document_with_ai ends up to line 161
PrimaryEnd(primary) ==
    IF primary.kind = "raised" THEN "raised"
    ELSE IF InterpretRaises(primary) THEN "misread"
    ELSE "returned"

\* whether the except clause of line 180 is entered: Exception covers what
\* analyze_document raises and what the interpretation of its result raises
Caught(primary) == primary.kind = "raised" \/ InterpretRaises(primary)

\* process_document_with_ai(blob_content, filename) when analyze_document
\* does primary: the path taken and what is returned
ProcessDocumentWithAIReturn(primary, content, filename) ==
    IF Caught(primary)
      THEN LET fb == ProcessDocumentFallback(content, filename)
           IN  [fallback |-> IF fb.raised THEN "raised" ELSE "returned",
                raised |-> fb.raised, info |-> fb.info]
      ELSE [fallback |-> "notRun", raised |-> FALSE,
              info |->
                 [timestamp |-> UtcNow,
                  extracted_data |-> ExtractedData(FieldsOf(primary.resp)),
                  confidence_scores |-> ConfidenceScores(FieldsOf(primary.resp)),
                  metadata |-> [fileExtension |-> FileExtension(filename),
                                fileSizeBytes |-> Len(content),
                                processingMethod |-> "azure_ai_content_understanding",
                                aiServiceResponse |-> [shape |-> primary.shape,
                                                       resp |-> primary.resp]],
                  schema_version |-> "1.0"]]

----------------------------------------------------------------------------
(* initialize_ai_client and BlobTrigger: the module-level ai_client and     *)
(* schema_id, and the record each invocation hands to the output binding.   *)

\* ai_client = None
NoClient == 0

\* schema_id = None
NoSchemaId == "None"

\* the ids the service gives to successive registrations
ServiceIds == << "s1", "s2", "s3", "s4" >>

\* a registration response: a JSON mapping with its 'id' and 'schemaId'
\* entries ("None": absent), or a body that is no mapping
SchemaInfo(isDict, id, sid) == [raised |-> FALSE, isDict |-> isDict, id |-> id, schemaId |-> sid]

RegistrationFailed == [raised |-> TRUE, isDict |-> FALSE, id |-> "None", schemaId |-> "None"]

\* what the n-th call of register_schema may do
RegOutcomes(n) ==
    { RegistrationFailed,
      SchemaInfo(FALSE, "None", "None"),
      SchemaInfo(TRUE, ServiceIds[n], "None"),
      SchemaInfo(TRUE, "None", ServiceIds[n]),
      SchemaInfo(TRUE, "", "None"),
      SchemaInfo(TRUE, "None", "None") }

\* bool(x) of an optional str
Truthy(s) == s \notin {"None", ""}

\* schema_info.get("id") or schema_info.get("schemaId")
SchemaIdOf(schema_info) ==
    IF Truthy(schema_info.id) THEN schema_info.id ELSE schema_info.schemaId

\* whether lines 41-42 complete (register_schema returned a mapping)
Registers(reg) == ~reg.raised /\ reg.isDict

\* variant: initialise on every invocation
NeedsInitAlways(client) == TRUE

\* if ai_client is None
NeedsInit(client) == client = NoClient

\* initialize_ai_client() run on its own from the globals (client, sid):
\* env: the constructor finds endpoint and key, load: get_default_schema
\* returns, reg: what register_schema does
InitializeAiClient(client, sid, made, regs, env, load, reg) ==
    IF ~NeedsInit(client)
      THEN [raised |-> FALSE, aiClient |-> client, schemaId |-> sid,
            constructed |-> made, registered |-> regs]
    ELSE IF ~env
      THEN [raised |-> TRUE, aiClient |-> client, schemaId |-> sid,
            constructed |-> made, registered |-> regs]
    ELSE IF ~load
      THEN [raised |-> TRUE, aiClient |-> made + 1, schemaId |-> sid,
            constructed |-> made + 1, registered |-> regs]
    ELSE [raised |-> FALSE, aiClient |-> made + 1,
          schemaId |-> IF Registers(reg) THEN SchemaIdOf(reg) ELSE sid,
          constructed |-> made + 1, registered |-> regs + 1]

\* variant: if not ai_client
NotInitializedClientOnly(client, sid) == client = NoClient

\* if not ai_client or not schema_id
NotInitialized(client, sid) == client = NoClient \/ ~Truthy(sid)

\* myblob.name.split('/')[-1]
BaseName(name) ==
    LET slashes == {i \in 1..Len(name) : name[i] = "/"}
    IN  IF slashes = {} THEN name
        ELSE LET last == CHOOSE i \in slashes : \A j \in slashes : j <= i
             IN  SubSeq(name, last + 1, Len(name))

\* cosmos_document
CompletedRecord(name, content, extracted_info) ==
    [originalFileName |-> BaseName(name),
     blobSize |-> Len(content),
     processedTimestamp |-> extracted_info.timestamp,
     extractedData |-> extracted_info.extracted_data,
     metadata |-> extracted_info.metadata,
     processingStatus |-> "completed",
     processingMethod |-> "azure_ai_content_understanding",
     schemaVersion |-> extracted_info.schema_version]

\* error_document
ErrorRecord(name, content, message) ==
    [originalFileName |-> BaseName(name),
     blobSize |-> Len(content),
     processedTimestamp |-> UtcNow,
     error |-> message,
     processingStatus |-> "error",
     processingMethod |-> "azure_ai_content_understanding"]

NoRecord == [processingStatus |-> "none"]

NoInfo == [schema_version |-> "none"]

NotRun == [init |-> "notRun", guard |-> "notReached", primary |-> "notRun", fallback |-> "notRun"]

NoBlob == [name |-> << >>, content |-> << >>]

\* the blobs of the invocation sequences
TriggerNames == {Chars("documents/notes.txt"), Chars("documents/scan.png")}

TriggerContents == {AsciiBytes(Chars("hello world")), << 255 >>}

\* content of n bytes: words of three letters, one space between them
LongText(n) == [i \in 1..n |-> IF i % 4 = 0 THEN 32 ELSE 97]

\* content of 2n bytes: n times the two-byte form of U+00E9
LongAccents(n) == [i \in 1..(2 * n) |-> IF i % 2 = 1 THEN 195 ELSE 169]

\* the blobs handed to a single invocation
FileNames ==
    { Chars("documents/notes.txt"), Chars("documents/DATA.CSV"),
      Chars("documents/in/a.json"), Chars("documents/scan.png"),
      Chars("documents/txt"), Chars("documents/notes.txt.bak") }

FileContents ==
    { << >>, AsciiBytes(Chars("hello world")), AsciiBytes(Chars("  a  b ")),
      << 9, 104, 105, 10, 13, 10, 121, 111, 11 >>,
      << 99, 97, 102, 195, 169 >>, << 97, 226, 128, 131, 98, 194, 160, 99 >>,
      << 240, 159, 153, 130, 32, 33 >>,
      << 255 >>, << 104, 105, 195 >>, << 104, 169, 105 >>, << 237, 160, 128 >>,
      << 192, 175 >>, LongAccents(SummaryCap - 400) }
        \cup {LongText(n) : n \in (SummaryCap - 1)..(SummaryCap + MaxOver)}
        \cup {LongText(SummaryCap + 1) \o << 255 >>}

TriggerInit ==
    /\ aiClient = NoClient
    /\ schemaId = NoSchemaId
    /\ constructed = 0
    /\ registered = 0
    /\ invocations = 0
    /\ blob = NoBlob
    /\ lastRun = NotRun
    /\ info = NoInfo
    /\ record = NoRecord

\* one invocation of BlobTrigger on the blob (name, content), run to its end
Invoke(name, content) ==
    \E env \in IF NeedsInit(aiClient) THEN BOOLEAN ELSE {TRUE} :
    \E load \in IF NeedsInit(aiClient) /\ env THEN BOOLEAN ELSE {TRUE} :
    \E reg \in IF NeedsInit(aiClient) /\ env /\ load
                 THEN RegOutcomes(registered + 1) ELSE {RegistrationFailed} :
        LET i == InitializeAiClient(aiClient, schemaId, constructed, registered,
                                    env, load, reg)
            ran == IF NeedsInit(aiClient) THEN "returned" ELSE "skipped"
        IN  /\ aiClient' = i.aiClient
            /\ schemaId' = i.schemaId
            /\ constructed' = i.constructed
            /\ registered' = i.registered
            /\ invocations' = invocations + 1
            /\ blob' = [name |-> name, content |-> content]
            /\ IF i.raised
                 THEN /\ lastRun' = [NotRun EXCEPT !.init = "raised"]
                      /\ info' = NoInfo
                      /\ record' = ErrorRecord(name, content, "initialization failed")
               ELSE IF NotInitialized(i.aiClient, i.schemaId)
                 THEN /\ lastRun' = [NotRun EXCEPT !.init = ran, !.guard = "raised"]
                      /\ info' = NoInfo
                      /\ record' = ErrorRecord(name, content,
                             "AI Content Understanding client not properly initialized")
               ELSE \E primary \in AnalysisOutcomes :
                    \E r \in {ProcessDocumentWithAIReturn(primary, content, BaseName(name))} :
                          /\ lastRun' = [init |-> ran, guard |-> "passed",
                                         primary |-> PrimaryEnd(primary),
                                         fallback |-> r.fallback]
                          /\ info' = IF r.raised THEN NoInfo ELSE r.info
                          /\ record' = IF r.raised
                                         THEN ErrorRecord(name, content, "processing failed")
                                         ELSE CompletedRecord(name, content, r.info)

\* BlobTrigger(myblob, outputDocument), one invocation after the other
BlobTrigger ==
    /\ invocations < MaxInvocations
    /\ \E name \in TriggerNames, content \in TriggerContents : Invoke(name, content)
    /\ UNCHANGED <<jobVars, countVars, fieldVars, raceVars, imageVars>>

\* BlobTrigger(myblob, outputDocument), the first invocation, on any file
BlobTriggerFile ==
    /\ invocations = 0
    /\ \E name \in FileNames, content \in FileContents : Invoke(name, content)
    /\ UNCHANGED <<jobVars, countVars, fieldVars, raceVars, imageVars>>

----------------------------------------------------------------------------
(* initialize_ai_client run by several invocations at once: each invocation *)
(* is a thread of the worker, a step is one statement that reads or writes  *)
(* the shared ai_client, schema_id or a cache.                              *)

Procs == 1..MaxProcs

\* labels at which an invocation is not inside initialize_ai_client
Outside == {"idle", "done", "raised"}

\* invocation p may take a step: always when invocations interleave, and
\* only while no other invocation is inside when they are serialized
CanStep(p) == serialized => \A q \in Procs \ {p} : ipc[q] \in Outside

RaceIdle ==
    /\ serialized = TRUE
    /\ ipc = [p \in Procs |-> "idle"]
    /\ target = [p \in Procs |-> NoClient]
    /\ regInfo = [p \in Procs |-> RegistrationFailed]
    /\ regLog = << >>
    /\ cache = << >>
    /\ schemaCached = FALSE
    /\ loads = 0

RaceInit ==
    /\ serialized \in BOOLEAN
    /\ ipc = [p \in Procs |-> "idle"]
    /\ target = [p \in Procs |-> NoClient]
    /\ regInfo = [p \in Procs |-> RegistrationFailed]
    /\ regLog = << >>
    /\ cache = << >>
    /\ schemaCached = FALSE
    /\ loads = 0

restVars == <<invocations, blob, lastRun, info, record, jobVars, countVars, fieldVars, imageVars>>

\* line 31: if ai_client is None
InitCheck(p) ==
    /\ ipc[p] = "idle"
    /\ CanStep(p)
    /\ ipc' = [ipc EXCEPT ![p] = IF NeedsInit(aiClient) THEN "construct" ELSE "done"]
    /\ UNCHANGED <<aiClient, schemaId, constructed, registered, serialized, target,
                   regInfo, regLog, cache, schemaCached, loads, restVars>>

\* line 33: ai_client = AIContentUnderstandingClient()
InitConstruct(p) ==
    /\ ipc[p] = "construct"
    /\ CanStep(p)
    /\ \E env \in BOOLEAN :
          IF env
            THEN /\ aiClient' = constructed + 1
                 /\ constructed' = constructed + 1
                 /\ cache' = Append(cache, NoSchemaId)
                 /\ ipc' = [ipc EXCEPT ![p] = "loadCheck"]
            ELSE /\ ipc' = [ipc EXCEPT ![p] = "raised"]
                 /\ UNCHANGED <<aiClient, constructed, cache>>
    /\ UNCHANGED <<schemaId, registered, serialized, target, regInfo, regLog,
                   schemaCached, loads, restVars>>

\* line 36, load_schema: if cache_key in self._schema_cache
LoadCheck(p) ==
    /\ ipc[p] = "loadCheck"
    /\ CanStep(p)
    /\ ipc' = [ipc EXCEPT ![p] = IF schemaCached THEN "register" ELSE "loadFile"]
    /\ UNCHANGED <<aiClient, schemaId, constructed, registered, serialized, target,
                   regInfo, regLog, cache, schemaCached, loads, restVars>>

\* line 36, load_schema: read the file and store it in the cache
LoadFile(p) ==
    /\ ipc[p] = "loadFile"
    /\ CanStep(p)
    /\ \E load \in BOOLEAN :
          IF load
            THEN /\ schemaCached' = TRUE
                 /\ loads' = loads + 1
                 /\ ipc' = [ipc EXCEPT ![p] = "register"]
            ELSE /\ ipc' = [ipc EXCEPT ![p] = "raised"]
                 /\ UNCHANGED <<schemaCached, loads>>
    /\ UNCHANGED <<aiClient, schemaId, constructed, registered, serialized, target,
                   regInfo, regLog, cache, restVars>>

\* line 41: ai_client.register_schema(schema), up to the response of the POST
RegPost(p) ==
    /\ ipc[p] = "register"
    /\ CanStep(p)
    /\ registered' = registered + 1
    /\ target' = [target EXCEPT ![p] = aiClient]
    /\ \E reg \in {RegistrationFailed, SchemaInfo(TRUE, ServiceIds[registered + 1], "None")} :
          /\ regInfo' = [regInfo EXCEPT ![p] = reg]
          /\ regLog' = Append(regLog, [proc |-> p, client |-> aiClient,
                                      id |-> IF reg.raised THEN NoSchemaId ELSE reg.id])
          /\ ipc' = [ipc EXCEPT ![p] = IF reg.raised THEN "done" ELSE "cacheWrite"]
    /\ UNCHANGED <<aiClient, schemaId, constructed, serialized, cache, schemaCached,
                   loads, restVars>>

\* register_schema: self._schema_cache[schema_key] = result
RegCache(p) ==
    /\ ipc[p] = "cacheWrite"
    /\ CanStep(p)
    /\ cache' = [cache EXCEPT ![target[p]] = regInfo[p].id]
    /\ ipc' = [ipc EXCEPT ![p] = "storeId"]
    /\ UNCHANGED <<aiClient, schemaId, constructed, registered, serialized, target,
                   regInfo, regLog, schemaCached, loads, restVars>>

\* line 42: schema_id = schema_info.get("id") or schema_info.get("schemaId")
StoreId(p) ==
    /\ ipc[p] = "storeId"
    /\ CanStep(p)
    /\ schemaId' = SchemaIdOf(regInfo[p])
    /\ ipc' = [ipc EXCEPT ![p] = "done"]
    /\ UNCHANGED <<aiClient, constructed, registered, serialized, target, regInfo,
                   regLog, cache, schemaCached, loads, restVars>>

RaceStep(p) ==
    \/ InitCheck(p)
    \/ InitConstruct(p)
    \/ LoadCheck(p)
    \/ LoadFile(p)
    \/ RegPost(p)
    \/ RegCache(p)
    \/ StoreId(p)

----------------------------------------------------------------------------
(* analyze_image_for_people on the payload analyze_document returned        *)

\* a key that is absent from a mapping
Absent == << "absent" >>

\* the descriptions the analyzer gives
Descriptions ==
    { << >>, Chars("Two people sitting"), Chars("a large crowd gathered"),
      Chars("the weather is nice today"), << SUP2 >> \o Chars(" men") }

\* an entry of results['result']['contents']
Content(hasFields, hasSummary, valueString, markdown) ==
    [hasFields |-> hasFields, hasSummary |-> hasSummary,
     valueString |-> valueString, markdown |-> markdown]

\* the first entries tried: without 'fields' and without 'Summary' the
\* valueString is not there either
FirstContents ==
    {Content(TRUE, TRUE, v, m) : v \in Descriptions \cup {Absent}, m \in Descriptions \cup {Absent}}
        \cup {Content(f, FALSE, Absent, m) : f \in BOOLEAN, m \in Descriptions \cup {Absent}}

\* the entries after the first
OtherContent == Content(FALSE, FALSE, Absent, Chars("Two people sitting"))

ContentLists ==
    {<< >>} \cup
    UNION { {<<c>> \o [i \in 1..n |-> OtherContent] : c \in FirstContents}
            : n \in 0..(MaxContents - 1) }

\* the payload with status Succeeded: results, with or without its
\* 'result' entry and the 'contents' entry of that
Payload(hasResult, hasContents, contents) ==
    [hasResult |-> hasResult, hasContents |-> hasContents, contents |-> contents]

Payloads ==
    {Payload(FALSE, FALSE, << >>), Payload(TRUE, FALSE, << >>)}
        \cup {Payload(TRUE, TRUE, cs) : cs \in ContentLists}

\* lines 35-39: the description of a content
DescriptionOf(content) ==
    IF content.hasFields /\ content.hasSummary
      THEN IF content.valueString = Absent THEN << >> ELSE content.valueString
    ELSE IF content.markdown # Absent THEN content.markdown
    ELSE << >>

ImageReturned(n, description, results) ==
    [kind |-> "returned", error |-> "none", people_counts |-> n,
     description |-> description, full_results |-> results]

ImageRaised(e) ==
    [kind |-> "raised", error |-> e, people_counts |-> 0,
     description |-> << >>, full_results |-> Payload(FALSE, FALSE, << >>)]

NoImageOutcome ==
    [kind |-> "none", error |-> "none", people_counts |-> 0,
     description |-> << >>, full_results |-> Payload(FALSE, FALSE, << >>)]

\* analyze_image_for_people(file_url) when analyze_document returns results:
\* description is bound only inside the if statement of line 31
AnalyzeImageResult(results) ==
    IF results.hasResult /\ results.hasContents
      THEN IF results.contents = << >> THEN ImageRaised("IndexError")
           ELSE LET description == DescriptionOf(results.contents[1])
                    n == ExtractPeopleCount(description)
                IN  IF n.kind = "int" THEN ImageReturned(n.value, description, results)
                    ELSE ImageRaised("ValueError")
      ELSE ImageRaised("UnboundLocalError")

ImageIdle ==
    /\ iphase = "off"
    /\ payload = Payload(FALSE, FALSE, << >>)
    /\ imageOutcome = NoImageOutcome

ImageInit ==
    /\ iphase = "idle"
    /\ payload \in Payloads
    /\ imageOutcome = NoImageOutcome

AnalyzeImageForPeople ==
    /\ iphase = "idle"
    /\ imageOutcome' = AnalyzeImageResult(payload)
    /\ iphase' = "done"
    /\ UNCHANGED <<payload, jobVars, countVars, fieldVars, triggerVars, raceVars>>

----------------------------------------------------------------------------
(* Specifications *)

\* the job client: analyze_document and _poll_for_results
LaterIdle == TriggerInit /\ RaceIdle /\ ImageIdle

Init == JobInit /\ CountIdle /\ FieldsIdle /\ LaterIdle

Next == JobNext

Spec == Init /\ [][Next]_vars

\* the loop is sequential code: it keeps running until it returns or raises
FairSpec == Spec /\ WF_vars(Next)

\* _extract_people_count on descriptions that exercise the patterns
CountSpecInit == JobInit /\ CountInit /\ FieldsIdle /\ LaterIdle

CountNext == AppendPiece \/ Extract

SpecCount == CountSpecInit /\ [][CountNext]_vars

\* _extract_people_count on descriptions that exercise the fixed phrases
PhraseNext == AppendPhrase \/ Extract

SpecPhrase == CountSpecInit /\ [][PhraseNext]_vars

\* _extract_people_count on descriptions with an embedded "<n> people"
EmbedSpecInit == JobInit /\ EmbedInit /\ FieldsIdle /\ LaterIdle

EmbedNext == AddBefore \/ AddAfter \/ Extract

SpecEmbed == EmbedSpecInit /\ [][EmbedNext]_vars

\* process_document_with_ai on the responses of the analysis service
FieldsSpecInit == JobInit /\ CountIdle /\ FieldsInit /\ LaterIdle

FieldsNext == ProcessDocumentWithAI

SpecFields == FieldsSpecInit /\ [][FieldsNext]_vars

\* BlobTrigger invoked again and again, one invocation after the other
TriggerSpecInit == JobInit /\ CountIdle /\ FieldsIdle /\ TriggerInit /\ RaceIdle /\ ImageIdle

TriggerNext == BlobTrigger

SpecTrigger == TriggerSpecInit /\ [][TriggerNext]_vars

\* one invocation of BlobTrigger on files of every kind
FileNext == BlobTriggerFile

SpecFile == TriggerSpecInit /\ [][FileNext]_vars

\* initialize_ai_client run by several invocations, serialized or interleaved
RaceSpecInit == JobInit /\ CountIdle /\ FieldsIdle /\ TriggerInit /\ RaceInit /\ ImageIdle

RaceNext == \E p \in Procs : RaceStep(p)

SpecRace == RaceSpecInit /\ [][RaceNext]_vars

\* analyze_image_for_people on the payloads of the analyzer
ImageSpecInit == JobInit /\ CountIdle /\ FieldsIdle /\ TriggerInit /\ RaceIdle /\ ImageInit

ImageNext == AnalyzeImageForPeople

SpecImage == ImageSpecInit /\ [][ImageNext]_vars

----------------------------------------------------------------------------
(* Claims about the job client *)

Elapsed == now - start

NonTerminal == {"NotStarted", "Running"}

\* C1 (as amended): a call that observed k non-terminal statuses and then
\* Succeeded returns that Succeeded payload after exactly k+1 status requests
\* and exactly k sleeps; its elapsed time is the k sleep intervals plus the
\* time spent in the requests, so the sequence [NotStarted, Running,
\* Succeeded] gives 3 polls and an elapsed time of at least 2 intervals and
\* less than 3 intervals plus the time the three requests took.
C1_SucceededAfterKPlusOnePolls ==
    /\ lastStatus = "Succeeded" =>
          /\ pc = "done"
          /\ outcome = Returned(lastResult)
          /\ polls = nonTerm + 1
          /\ sleeps = nonTerm
          /\ Elapsed = nonTerm * SleepInterval + waited
    /\ outcome.kind = "Succeeded" => lastStatus = "Succeeded"
    /\ seqPos = Len(ExampleSeq) =>
          /\ polls = 3
          /\ Elapsed >= 2 * SleepInterval
          /\ Elapsed < 3 * SleepInterval + waited

C1_Witness ==
    /\ pc = "done"
    /\ seqPos = Len(ExampleSeq)
    /\ outcome.kind = "Succeeded"
    /\ polls = 3
    /\ sleeps = 2

\* C1 (original): the sequence [NotStarted, Running, Succeeded] gives exactly
\* 3 polls and an elapsed time of at least 2 and less than 3 intervals.
C1_Original ==
    seqPos = Len(ExampleSeq) =>
        /\ polls = 3
        /\ Elapsed >= 2 * SleepInterval
        /\ Elapsed < 3 * SleepInterval

\* C2: no status request is sent when the elapsed time is at or beyond
\* max_wait_time (none at all for max_wait_time = 0), the number of requests
\* is bounded by the deadline, and a call whose polls all answered
\* NotStarted or Running ends with the timeout error.
C2_TimeoutAndNoLatePoll ==
    /\ polls > 0 =>
          /\ lastPollElapsed >= 0
          /\ lastPollElapsed < maxWait
          /\ (polls - 1) * SleepInterval < maxWait
    /\ maxWait = 0 => polls = 0
    /\ pc = "poll" => ENABLED Next
    /\ (pc = "done" /\ opLoc # "None" /\ polls = nonTerm) =>
          /\ outcome.kind = "TimedOut"
          /\ Elapsed >= maxWait
    /\ outcome.kind = "TimedOut" => (pc = "done" /\ polls = nonTerm /\ Elapsed >= maxWait)

C2_Witness ==
    /\ pc = "done"
    /\ outcome.kind = "TimedOut"
    /\ maxWait = DefaultMaxWait
    /\ polls = nonTerm
    /\ polls > 1

\* C3: a status request is sent only while the last observed status is
\* none, NotStarted or Running; after Succeeded or Failed none is sent.
C3_PolledOnlyWhileNonTerminal ==
    [][polls' # polls => lastStatus \in ({"none"} \cup NonTerminal)]_vars

C3_Witness ==
    /\ pc = "done"
    /\ lastStatus \in {"Succeeded", "Failed"}
    /\ polls >= 2

\* C4: polling continues only after NotStarted or Running; Failed ends the
\* call on that poll with an error carrying the failure payload, and any
\* other status (a missing status field included) ends it on that poll with
\* an error, never with a sleep.
C4_FailedAndUnknownAbort ==
    /\ sleeps = nonTerm
    /\ pc = "poll" => lastStatus \in ({"none"} \cup NonTerminal)
    /\ lastStatus = "Failed" =>
          /\ pc = "done"
          /\ outcome = Raised("AnalysisFailed", 0, "none", lastResult)
          /\ polls = sleeps + 1
    /\ lastStatus \notin ({"none", "Succeeded", "Failed"} \cup NonTerminal) =>
          /\ pc = "done"
          /\ outcome = Raised("UnknownStatus", 0, lastStatus, NoResult)
          /\ polls = sleeps + 1

C4_Witness ==
    /\ pc = "done"
    /\ lastStatus = "None"
    /\ outcome.kind = "UnknownStatus"
    /\ polls >= 2

\* C5: a response to the analysis POST other than 202 fails the call with
\* an error carrying the HTTP status and body, and no status poll is sent;
\* a status poll is sent only after a 202 that supplied Operation-Location.
C5_SubmitRejectedNoPoll ==
    /\ submitCode \notin {0, AcceptedCode} =>
          /\ pc = "done"
          /\ outcome = Raised("SubmitFailed", submitCode, submitBody, NoResult)
          /\ polls = 0
    /\ (submitCode # 0 /\ polls > 0) => (submitCode = AcceptedCode /\ opLoc # "None")
    /\ outcome.kind = "SubmitFailed" => submitCode \notin {0, AcceptedCode}

C5_Witness ==
    /\ pc = "done"
    /\ submitCode = 400
    /\ outcome.kind = "SubmitFailed"
    /\ outcome.body = "b2"

----------------------------------------------------------------------------
(* Claims about _extract_people_count *)

\* the tokens re.findall gives for each pattern on the lowered description
AllTokens(t) == [k \in DOMAIN Patterns |-> FindAll(Patterns[k], ToLower(t), 1)]

\* a token written as a number word
IsNumberWord(tok) == tok \in NumberWordSet

\* a token that resolves to an integer: decimal digits or a number word
Resolves(tok) == (IsDigitStr(tok) /\ IntParses(tok)) \/ IsNumberWord(tok)

ResolvedValue(tok) ==
    IF IsNumberWord(tok) THEN NumberWordValue(tok) ELSE DecimalValue(tok)

MentionsPerson(t) == \E k \in DOMAIN PersonNouns : Contains(t, PersonNouns[k])

\* the fixed phrases with their values, in priority order
PhraseTable ==
    << [phrases |-> {Chars("couple")}, value |-> 2],
       [phrases |-> {Chars("trio"), Chars("three people")}, value |-> 3],
       [phrases |-> {Chars("quartet"), Chars("four people")}, value |-> 4],
       [phrases |-> {Chars("crowd"), Chars("many people")}, value |-> 10],
       [phrases |-> {Chars("few people")}, value |-> 3],
       [phrases |-> {Chars("several people")}, value |-> 5] >>

HasPhrase(t, r) == \E ph \in PhraseTable[r].phrases : Contains(t, ph)

MentionsPhrase(t) == \E r \in DOMAIN PhraseTable : HasPhrase(t, r)

\* C6 (as amended): for n in 0..20 written as digits or as its number word,
\* a description in which "<n> people" stands at the start or after a
\* non-word character, with no person-noun anywhere before it, gives n.
C6_EmbeddedAtBoundaryGivesN ==
    (cphase = "done" /\ embN >= 0) =>
        \A before \in {ToLower(SubSeq(text, 1, preLen))} :
            ((preLen = 0 \/ ~InClass(before[preLen], "w")) /\ ~MentionsPerson(before))
                => count = IntResult(embN)

C6_Witness ==
    /\ cphase = "done"
    /\ embN = 12
    /\ text = Chars("Group of twelve people, 7 women")
    /\ count = IntResult(12)

\* C6 (original), reading "embedded" as standing at the start or after a
\* non-word character: every description in which "<n> people" is embedded
\* gives n.
C6_Original ==
    (cphase = "done" /\ embN >= 0) =>
        ((preLen = 0 \/ ~InClass(text[preLen], "w")) => count = IntResult(embN))

\* C7 (as amended): patterns are evaluated in listed order and, within a
\* pattern, the matches in order: the first match whose token is a digit
\* string or a number word decides the call (its integer; ValueError for a
\* digit string without an integer value), and evaluation moves to the next
\* pattern only when no match of the pattern has such a token.
C7_FirstDecisiveMatchWins ==
    cphase = "done" =>
        \A toks \in {AllTokens(text)} :
        \A dec \in {[k \in DOMAIN Patterns |->
                        {i \in DOMAIN toks[k] :
                            IsDigitStr(toks[k][i]) \/ IsNumberWord(toks[k][i])}]} :
        \A k \in DOMAIN Patterns :
            (dec[k] # {} /\ \A j \in 1..(k - 1) : dec[j] = {}) =>
                LET i == CHOOSE i \in dec[k] : \A h \in dec[k] : i <= h
                    tok == toks[k][i]
                IN  count = IF Resolves(tok) THEN IntResult(ResolvedValue(tok))
                            ELSE ValueErrorResult

C7_Witness ==
    /\ cphase = "done"
    /\ text = Chars("many people two men and 5 women ")
    /\ count = IntResult(2)

\* C7 (original), on descriptions whose digit tokens all have an integer
\* value: within a pattern only the first match is used; if its token
\* resolves to an integer the result is that integer, otherwise the pattern
\* counts as non-matching and the next pattern is evaluated.
C7_Original ==
    cphase = "done" =>
        \A toks \in {AllTokens(text)} :
        \A first \in {[k \in DOMAIN Patterns |->
                          toks[k] # << >> /\ Resolves(toks[k][1])]} :
        \A plain \in {\A k \in DOMAIN Patterns : \A i \in DOMAIN toks[k] :
                          IsDigitStr(toks[k][i]) => IntParses(toks[k][i])} :
        \A k \in DOMAIN Patterns :
            (plain /\ first[k] /\ \A j \in 1..(k - 1) : ~first[j]) =>
                count = IntResult(ResolvedValue(toks[k][1]))

\* C8: when no quantity pattern yields a resolved number, the result is the
\* value of the first fixed phrase present, in the priority order couple,
\* trio / three people, quartet / four people, crowd / many people,
\* few people, several people.
C8_PhrasePriority ==
    cphase = "done" =>
        \A toks \in {AllTokens(text)} :
        \A has \in {[r \in DOMAIN PhraseTable |-> HasPhrase(ToLower(text), r)]} :
            (/\ \A k \in DOMAIN Patterns : \A i \in DOMAIN toks[k] : ~Resolves(toks[k][i])
             /\ \E r \in DOMAIN PhraseTable : has[r]) =>
                LET r == CHOOSE r \in DOMAIN PhraseTable :
                            has[r] /\ \A q \in 1..(r - 1) : ~has[q]
                IN  count = IntResult(PhraseTable[r].value)

\* C9: the call returns a non-negative integer for every description and
\* never raises; without a person-noun and without a fixed phrase it gives 0.
C9_AlwaysNonNegativeInteger ==
    cphase = "done" =>
        /\ count.kind = "int"
        /\ count.value >= 0
        /\ \A tl \in {ToLower(text)} :
              (~MentionsPerson(tl) /\ ~MentionsPhrase(tl)) => count.value = 0

----------------------------------------------------------------------------
(* Claims about process_document_with_ai *)

\* a mapping with the value/confidence shape: it holds one of the two keys
HasValueShape(v) == v.isDict /\ DOMAIN v.dict \cap {"value", "confidence"} # {}

\* C10: a field whose value is a mapping with the value/confidence shape
\* contributes its value to extracted_data and its confidence (0.0 when
\* absent) to confidence_scores; every other field's raw value is passed
\* through unchanged with no confidence_scores entry; extracted_data has
\* exactly the keys of fields.
C10_FieldSplitting ==
    fphase = "done" =>
        LET fields == FieldsOf(resp)
        IN  /\ DOMAIN extracted = DOMAIN fields
            /\ \A n \in DOMAIN fields :
                  IF HasValueShape(fields[n])
                    THEN /\ extracted[n] = Scalar(DictGet(fields[n].dict, "value", "null"))
                         /\ n \in DOMAIN confidence
                         /\ confidence[n] = DictGet(fields[n].dict, "confidence", "0.0")
                    ELSE /\ extracted[n] = fields[n]
                         /\ n \notin DOMAIN confidence

----------------------------------------------------------------------------
(* Claims about process_document_with_ai, process_document_fallback and    *)
(* BlobTrigger                                                              *)

\* process_document_with_ai was called and its primary path failed
PrimaryFailed == lastRun.primary \in {"raised", "misread"}

InfoKeys == {"timestamp", "extracted_data", "confidence_scores", "metadata", "schema_version"}

UndecodableLabel(filename) ==
    CodePoints(Chars("Binary file that couldn't be decoded as text: ") \o filename)

\* C11: whenever the analysis call or the interpretation of its result
\* fails, process_document_with_ai returns what process_document_fallback
\* returns; process_document_fallback never raises, labels an undecodable
\* file with a text extension as binary, and returns a mapping with
\* timestamp, extracted_data, confidence_scores, metadata, schema_version.
C11_FailureFallsBack ==
    /\ lastRun.fallback # "raised"
    /\ PrimaryFailed =>
          /\ lastRun.fallback = "returned"
          /\ info.schema_version = "fallback"
          /\ info.metadata.processingMethod = "fallback_basic_extraction"
    /\ lastRun.fallback = "returned" =>
          /\ PrimaryFailed
          /\ DOMAIN info = InfoKeys
          /\ \A fn \in {BaseName(blob.name)} :
                (HasTextExtension(fn) /\ ~DecodeUtf8(blob.content).ok)
                    => info.extracted_data.Summary = UndecodableLabel(fn)

C11_Witness ==
    /\ lastRun.primary = "misread"
    /\ lastRun.fallback = "returned"
    /\ blob = [name |-> Chars("documents/notes.txt"), content |-> << 104, 105, 195 >>]
    /\ info.extracted_data.Summary = UndecodableLabel(Chars("notes.txt"))
    /\ info.metadata.wordCount = 9

\* C12: a persisted record has processingStatus "error" only when an
\* exception escaped both the primary analysis path and the fallback path;
\* a failure of the analysis service is recovered by the fallback and yields
\* a record with processingStatus "completed".
C12_ErrorOnlyWhenBothPathsFailed ==
    /\ record.processingStatus = "error" => (PrimaryFailed /\ lastRun.fallback = "raised")
    /\ PrimaryFailed => record.processingStatus = "completed"

\* the number of whitespace-separated words of t: the ends of its words
WordsOf(t) ==
    Cardinality({i \in 1..Len(t) :
                    /\ t[i] \notin Whitespace
                    /\ (i = Len(t) \/ t[i + 1] \in Whitespace)})

\* a file name whose extension is txt, csv or json
IsTextFile(filename) ==
    FileExtension(filename) \in {Chars("txt"), Chars("csv"), Chars("json")}

HelloWorld == CodePoints(Chars("hello world"))

\* C13: process_document_fallback on a file with a text extension and
\* decodable content: wordCount is the number of whitespace-separated
\* words, characterCount the length of the decoded text, Summary the text
\* cut to at most 1,000 characters (the text itself up to the cap);
\* "hello world" gives 2, 11 and "hello world"; the record is persisted
\* with processingStatus "completed".
C13_TextFileCounts ==
    (lastRun.fallback = "returned" /\ IsTextFile(BaseName(blob.name))) =>
        \A d \in {DecodeUtf8(blob.content)} :
            d.ok =>
                /\ info.metadata.wordCount = WordsOf(d.text)
                /\ info.metadata.characterCount = Len(d.text)
                /\ Len(info.extracted_data.Summary) <= SummaryCap
                /\ Len(d.text) <= SummaryCap => info.extracted_data.Summary = d.text
                /\ Len(d.text) > SummaryCap =>
                      info.extracted_data.Summary = SubSeq(d.text, 1, SummaryCap)
                /\ d.text = HelloWorld =>
                      /\ info.metadata.wordCount = 2
                      /\ info.metadata.characterCount = 11
                      /\ info.extracted_data.Summary = HelloWorld
                /\ record.processingStatus = "completed"
                /\ record.extractedData = info.extracted_data
                /\ record.metadata = info.metadata

C13_Witness ==
    /\ lastRun.fallback = "returned"
    /\ blob = [name |-> Chars("documents/DATA.CSV"), content |-> LongText(SummaryCap + 1)]
    /\ info.metadata.wordCount = 251
    /\ info.metadata.characterCount = SummaryCap + 1
    /\ Len(info.extracted_data.Summary) = SummaryCap
    /\ record.processingStatus = "completed"

----------------------------------------------------------------------------
(* Claims about initialize_ai_client *)

\* every invocation has left initialize_ai_client
AllOutside == \A p \in Procs : ipc[p] \in {"done", "raised"}

\* C14: when the invocations run one after another the schema is
\* registered at most once and the stored client and schema id come from
\* that registration; when they interleave, several invocations can pass the
\* check of line 31, each registers the same schema, and the stored schema
\* id is that of any one of the registrations, not of a determined one.
C14_SafeOnlyWhenSerialized ==
    /\ serialized =>
          /\ registered <= 1
          /\ constructed <= 1
          /\ loads <= 1
          /\ registered = 1 => (aiClient = regLog[1].client /\ aiClient = constructed)
          /\ schemaId # NoSchemaId => (registered = 1 /\ schemaId = regLog[1].id)
    /\ ~serialized =>
          /\ registered <= MaxProcs
          /\ Len(regLog) = registered
          /\ schemaId # NoSchemaId => \E i \in DOMAIN regLog : schemaId = regLog[i].id
          /\ aiClient \in 0..constructed

\* two invocations interleaved, both registered, and the id of the earlier
\* registration is the one that stays stored
C14_Witness ==
    /\ ~serialized
    /\ AllOutside
    /\ registered = 2
    /\ constructed = 2
    /\ regLog[1].id = "s1"
    /\ regLog[2].id = "s2"
    /\ regLog[1].proc # regLog[2].proc
    /\ schemaId = "s1"
    /\ aiClient = 2

\* C16: under serialized invocations, once ai_client is set no later
\* invocation constructs a client or calls register_schema, and schema_id
\* never changes; if schema_id was left unset, every later invocation of
\* BlobTrigger emits an "error" record without running the primary
\* analysis or the fallback extraction.
C16_OneShotInitialisation ==
    [][aiClient # NoClient =>
          /\ aiClient' = aiClient
          /\ constructed' = constructed
          /\ registered' = registered
          /\ schemaId' = schemaId
          /\ ~Truthy(schemaId) =>
                /\ record'.processingStatus = "error"
                /\ lastRun'.primary = "notRun"
                /\ lastRun'.fallback = "notRun"]_vars

C16_Witness ==
    /\ invocations = 3
    /\ constructed = 1
    /\ registered = 1
    /\ schemaId = NoSchemaId
    /\ lastRun.init = "skipped"
    /\ lastRun.guard = "raised"
    /\ record.processingStatus = "error"

----------------------------------------------------------------------------
(* Claims about analyze_image_for_people *)

\* the payload has no 'result'/'contents' section, or its first content
\* has neither a Summary field nor markdown
NoDescription(results) ==
    \/ ~(results.hasResult /\ results.hasContents)
    \/ /\ results.contents # << >>
       /\ ~(results.contents[1].hasFields /\ results.contents[1].hasSummary)
       /\ results.contents[1].markdown = Absent

\* C15: for every Succeeded payload the call returns, without raising, a
\* mapping with a non-negative people count, the description and the full
\* results; without a 'result'/'contents' section, or when the first
\* content has neither a Summary field nor markdown, the count is 0 and the
\* description the empty string.
C15_AlwaysReturnsMapping ==
    iphase = "done" =>
        /\ imageOutcome.kind = "returned"
        /\ imageOutcome.people_counts >= 0
        /\ imageOutcome.full_results = payload
        /\ NoDescription(payload) =>
              /\ imageOutcome.people_counts = 0
              /\ imageOutcome.description = << >>

====
